---------------------------- MODULE Spec2Model ----------------------------
(***************************************************************************)
(* Model of filter_tracker.py: one SQLite table "filters" and the commands *)
(* add, check, list, last_changes, delete, edit, export_all, export_last.  *)
(*                                                                         *)
(* A TEXT value is a tuple of byte codes, so that SQLite's BINARY          *)
(* collation (memcmp, then the shorter value first) is computed and not    *)
(* assumed.  Python's None is the tuple None below, which is no TEXT.      *)
(***************************************************************************)
EXTENDS Integers, Sequences, FiniteSets, TLC

\* Largest id the model lets AUTOINCREMENT hand out.
MaxId == 2

-----------------------------------------------------------------------------
\* Values

None == << -1 >>
Empty == << >>

LocA == << 65 >>
LocB == << 66 >>
SizeS == << 83 >>
ProdP == << 80 >>
ProdQ == << 81 >>
\* "2024-01-01" and "2024-01-02"
Date1 == << 50, 48, 50, 52, 45, 48, 49, 45, 48, 49 >>
Date2 == << 50, 48, 50, 52, 45, 48, 49, 45, 48, 50 >>

\* Python truth value of an argument: None and "" are false.
Truthy(x) == x # None /\ x # Empty

Min2(a, b) == IF a <= b THEN a ELSE b

\* a < b for two TEXT values under SQLite's default BINARY collation.
TextLess(a, b) ==
    \E k \in 1..(Min2(Len(a), Len(b)) + 1) :
        /\ \A j \in 1..(k - 1) : a[j] = b[j]
        /\ IF k > Len(a) THEN k <= Len(b)
           ELSE k <= Len(b) /\ a[k] < b[k]

MaxOf(S) == CHOOSE m \in S : \A x \in S : x <= m

\* MAX(change_date) over a non-empty set of TEXT values.
MaxText(S) == CHOOSE m \in S : \A x \in S : ~TextLess(m, x)

-----------------------------------------------------------------------------
\* State

VARIABLES
    filters,          \* the rows of table filters
    sqlite_sequence,  \* AUTOINCREMENT's record of the largest rowid ever used
    assigned,         \* history: every id an INSERT has assigned so far
    out               \* what the last command printed or wrote

vars == << filters, sqlite_sequence, assigned, out >>

Ids(t) == {r.id : r \in t}

\* id INTEGER PRIMARY KEY without AUTOINCREMENT: one more than the largest
\* rowid now in the table.
MutNextRowidNoAutoincrement(t, seq) ==
    IF t = {} THEN 1 ELSE MaxOf(Ids(t)) + 1

\* id INTEGER PRIMARY KEY AUTOINCREMENT: one more than the largest rowid
\* that was ever in the table.
NextRowid(t, seq) == MaxOf(Ids(t) \cup {seq}) + 1

Init ==
    /\ filters = {}
    /\ sqlite_sequence = 0
    /\ assigned = {}
    /\ out = [msg |-> "initialized"]

-----------------------------------------------------------------------------
\* add

\* The NOT NULL constraints of the four TEXT columns.
NotNull(location, size, product_number, change_date) ==
    /\ location # None
    /\ size # None
    /\ product_number # None
    /\ change_date # None

Add(location, size, product_number, change_date, now) ==
    LET date == IF ~Truthy(change_date) THEN now ELSE change_date
        id == NextRowid(filters, sqlite_sequence)
    IN  IF NotNull(location, size, product_number, date)
        THEN /\ id <= MaxId
             /\ filters' = filters \cup
                    {[id |-> id, location |-> location, size |-> size,
                      product_number |-> product_number, change_date |-> date]}
             /\ sqlite_sequence' = id
             /\ assigned' = assigned \cup {id}
             /\ out' = [msg |-> "recorded", location |-> location,
                        change_date |-> date]
        ELSE /\ out' = [msg |-> "IntegrityError"]
             /\ UNCHANGED << filters, sqlite_sequence, assigned >>

-----------------------------------------------------------------------------
\* check

RowsAt(t, location) == {r \in t : r.location = location}

\* ORDER BY change_date ASC LIMIT 1
MutCheckQueryOldest(t, location) ==
    {r \in RowsAt(t, location) :
        \A q \in RowsAt(t, location) : ~TextLess(q.change_date, r.change_date)}

\* SELECT ... WHERE location = ? ORDER BY change_date DESC LIMIT 1: the rows
\* the statement may return.  Rows that share the largest change_date are
\* in no order the statement fixes, so any of them may come first.
CheckQuery(t, location) ==
    {r \in RowsAt(t, location) :
        \A q \in RowsAt(t, location) : ~TextLess(r.change_date, q.change_date)}

\* What check can print for a location in table t.
CheckOutputs(t, location) ==
    IF CheckQuery(t, location) = {}
    THEN {[msg |-> "no_record_for_location", location |-> location]}
    ELSE {[msg |-> "last_changed", location |-> location,
           change_date |-> r.change_date,
           product_number |-> r.product_number] : r \in CheckQuery(t, location)}

Check(location) ==
    /\ out' \in CheckOutputs(filters, location)
    /\ UNCHANGED << filters, sqlite_sequence, assigned >>

-----------------------------------------------------------------------------
\* list, export_all

\* The sequences that hold every element of S exactly once.
Orderings(S) ==
    {s \in [1..Cardinality(S) -> S] :
        \A i, j \in 1..Cardinality(S) : i # j => s[i] # s[j]}

\* ORDER BY location ASC, change_date ASC
MutRowBeforeDateAsc(a, b) ==
    \/ TextLess(a.location, b.location)
    \/ a.location = b.location /\ TextLess(a.change_date, b.change_date)

\* ORDER BY location ASC, change_date DESC: row a must come before row b.
RowBefore(a, b) ==
    \/ TextLess(a.location, b.location)
    \/ a.location = b.location /\ TextLess(b.change_date, a.change_date)

\* SELECT id, location, size, product_number, change_date FROM filters
\* ORDER BY location ASC, change_date DESC: the results the statement may
\* give (rows equal in both keys come in either order).
ListQuery(t) ==
    {s \in Orderings(t) :
        \A i, j \in 1..Len(s) : i < j => ~RowBefore(s[j], s[i])}

List ==
    /\ IF filters # {}
       THEN out' \in {[msg |-> "table", rows |-> s] : s \in ListQuery(filters)}
       ELSE out' = [msg |-> "no_records_found"]
    /\ UNCHANGED << filters, sqlite_sequence, assigned >>

ExportAll ==
    /\ IF filters # {}
       THEN out' \in {[msg |-> "exported_all", rows |-> s] :
                        s \in ListQuery(filters)}
       ELSE out' = [msg |-> "no_records_to_export"]
    /\ UNCHANGED << filters, sqlite_sequence, assigned >>

-----------------------------------------------------------------------------
\* delete

\* DELETE FROM filters
MutDeleteAll(t, record_id) == {}

\* DELETE FROM filters WHERE id = ?
DeleteWhereId(t, record_id) == {r \in t : r.id # record_id}

\* The table after delete_filter_record(record_id) on table t.
DeleteTable(t, record_id) ==
    IF \E r \in t : r.id = record_id
    THEN DeleteWhereId(t, record_id)
    ELSE t

\* What delete_filter_record(record_id) prints on table t.
DeleteOutput(t, record_id) ==
    IF \E r \in t : r.id = record_id
    THEN [msg |-> "deleted", id |-> record_id]
    ELSE [msg |-> "no_record_with_id", id |-> record_id]

Delete(record_id) ==
    /\ filters' = DeleteTable(filters, record_id)
    /\ out' = DeleteOutput(filters, record_id)
    /\ UNCHANGED << sqlite_sequence, assigned >>

-----------------------------------------------------------------------------
\* edit

\* The SET list built from the arguments that are true in Python.
SetRow(r, location, size, product_number, change_date) ==
    [id |-> r.id,
     location |-> IF Truthy(location) THEN location ELSE r.location,
     size |-> IF Truthy(size) THEN size ELSE r.size,
     product_number |->
        IF Truthy(product_number) THEN product_number ELSE r.product_number,
     change_date |-> IF Truthy(change_date) THEN change_date ELSE r.change_date]

\* UPDATE filters SET ... with no WHERE clause
MutUpdateAllRows(t, record_id, location, size, product_number, change_date) ==
    {SetRow(r, location, size, product_number, change_date) : r \in t}

\* UPDATE filters SET ... WHERE id = ?
UpdateWhereId(t, record_id, location, size, product_number, change_date) ==
    {IF r.id = record_id
     THEN SetRow(r, location, size, product_number, change_date)
     ELSE r : r \in t}

\* "is not None" tests in place of the truth tests
MutHasUpdatesNotNone(location, size, product_number, change_date) ==
    \/ location # None
    \/ size # None
    \/ product_number # None
    \/ change_date # None

\* The list "updates" is not empty.
HasUpdates(location, size, product_number, change_date) ==
    \/ Truthy(location)
    \/ Truthy(size)
    \/ Truthy(product_number)
    \/ Truthy(change_date)

\* The table after edit_filter_record(record_id, ...) on table t.
EditTable(t, record_id, location, size, product_number, change_date) ==
    IF ~\E r \in t : r.id = record_id
    THEN t
    ELSE IF HasUpdates(location, size, product_number, change_date)
    THEN UpdateWhereId(t, record_id, location, size, product_number,
                       change_date)
    ELSE t

\* What edit_filter_record(record_id, ...) prints on table t.
EditOutput(t, record_id, location, size, product_number, change_date) ==
    IF ~\E r \in t : r.id = record_id
    THEN [msg |-> "no_record_with_id", id |-> record_id]
    ELSE IF HasUpdates(location, size, product_number, change_date)
    THEN [msg |-> "updated", id |-> record_id]
    ELSE [msg |-> "no_fields_to_update"]

Edit(record_id, location, size, product_number, change_date) ==
    /\ filters' = EditTable(filters, record_id, location, size,
                            product_number, change_date)
    /\ out' = EditOutput(filters, record_id, location, size,
                         product_number, change_date)
    /\ UNCHANGED << sqlite_sequence, assigned >>

-----------------------------------------------------------------------------
\* last_changes, export_last

\* SELECT location, MAX(change_date) FROM filters GROUP BY location
GroupMax(t) ==
    {[location |-> l,
      change_date |-> MaxText({r.change_date : r \in RowsAt(t, l)})] :
        l \in {r.location : r \in t}}

\* ... ORDER BY id ASC LIMIT 1
MutLastChangeRowLowestId(t, location, change_date) ==
    CHOOSE r \in t :
        /\ r.location = location
        /\ r.change_date = change_date
        /\ \A q \in t : q.location = location /\ q.change_date = change_date
                            => r.id <= q.id

\* SELECT ... WHERE location = ? AND change_date = ? ORDER BY id DESC LIMIT 1
LastChangeRow(t, location, change_date) ==
    CHOOSE r \in t :
        /\ r.location = location
        /\ r.change_date = change_date
        /\ \A q \in t : q.location = location /\ q.change_date = change_date
                            => q.id <= r.id

\* The loop over last_changes of print_last_change_per_location: one line
\* per group, in the order the GROUP BY gave them.
LastChangeLines(t, groups) ==
    [i \in 1..Len(groups) |->
        [location |-> groups[i].location,
         change_date |-> groups[i].change_date,
         product_number |->
            LastChangeRow(t, groups[i].location,
                          groups[i].change_date).product_number]]

\* The loop over last_changes of export_last_changes_to_csv.
LastChangeRows(t, groups) ==
    [i \in 1..Len(groups) |->
        LastChangeRow(t, groups[i].location, groups[i].change_date)]

LastChanges ==
    /\ IF GroupMax(filters) # {}
       THEN out' \in {[msg |-> "last_change_table",
                       rows |-> LastChangeLines(filters, g)] :
                        g \in Orderings(GroupMax(filters))}
       ELSE out' = [msg |-> "no_records_found"]
    /\ UNCHANGED << filters, sqlite_sequence, assigned >>

ExportLast ==
    /\ IF GroupMax(filters) # {}
       THEN out' \in {[msg |-> "exported_last",
                       rows |-> LastChangeRows(filters, g)] :
                        g \in Orderings(GroupMax(filters))}
       ELSE out' = [msg |-> "no_records_to_export"]
    /\ UNCHANGED << filters, sqlite_sequence, assigned >>

-----------------------------------------------------------------------------
\* The command line: one command per step.

\* The arguments the model tries.  None is an option left out (or a None
\* passed by a caller), Empty an option given as "".
IdArgs == 1..MaxId
CheckArgs == {Empty, LocA, LocB}
LocationArgs == {None, LocA, LocB}
SizeArgs == {None, SizeS}
ProductArgs == {Empty, ProdP, ProdQ}
DateArgs == {None, Date1, Date2}
\* The dates datetime.now() may give.
Today == {Date1, Date2}

Next ==
    \/ \E location \in LocationArgs, size \in SizeArgs,
          product_number \in ProductArgs, change_date \in DateArgs,
          now \in Today :
            Add(location, size, product_number, change_date, now)
    \/ \E location \in CheckArgs : Check(location)
    \/ List
    \/ LastChanges
    \/ \E record_id \in IdArgs : Delete(record_id)
    \/ \E record_id \in IdArgs, location \in LocationArgs, size \in SizeArgs,
          product_number \in ProductArgs, change_date \in DateArgs :
            Edit(record_id, location, size, product_number, change_date)
    \/ ExportAll
    \/ ExportLast

Spec == Init /\ [][Next]_vars

-----------------------------------------------------------------------------
\* Properties

\* r is the latest record of its location in t: no record of that location
\* has a larger change_date, and none with the same change_date a higher id.
IsLatest(t, r) ==
    /\ r \in t
    /\ \A q \in t : q.location = r.location =>
          \/ TextLess(q.change_date, r.change_date)
          \/ q.change_date = r.change_date /\ q.id <= r.id

\* Two records of one location share a change_date in t.
DateTie(t) ==
    \E r, q \in t :
        r.id # q.id /\ r.location = q.location /\ r.change_date = q.change_date

\* C1: what check prints for a location is the change_date and the
\* product_number of that location's latest record (largest change_date,
\* highest id among the records that share it), and it reports that there
\* is no record only when no record has the location.
C1_CheckPrintsLatest ==
    /\ out.msg = "last_changed" =>
          \E r \in filters :
              /\ r.location = out.location
              /\ IsLatest(filters, r)
              /\ out.change_date = r.change_date
              /\ out.product_number = r.product_number
    /\ out.msg = "no_record_for_location" =>
          RowsAt(filters, out.location) = {}

\* C2: last_changes and export_last give one entry for each location of the
\* table and none for any other, each entry being the latest record of its
\* location; they give no table when the table is empty.
C2_LatestPerLocation ==
    /\ out.msg \in {"last_change_table", "exported_last"} =>
          /\ filters # {}
          /\ {out.rows[i].location : i \in 1..Len(out.rows)} =
                {r.location : r \in filters}
          /\ \A i, j \in 1..Len(out.rows) :
                i # j => out.rows[i].location # out.rows[j].location
    /\ out.msg = "exported_last" =>
          \A i \in 1..Len(out.rows) : IsLatest(filters, out.rows[i])
    /\ out.msg = "last_change_table" =>
          \A i \in 1..Len(out.rows) :
              \E r \in filters :
                  /\ IsLatest(filters, r)
                  /\ r.location = out.rows[i].location
                  /\ r.change_date = out.rows[i].change_date
                  /\ r.product_number = out.rows[i].product_number
    /\ out.msg = "no_records_to_export" => filters = {}
    /\ out.msg = "no_records_found" => filters = {}

\* export_last has written its rows for a table in which two records of
\* one location share the largest change_date.
C2_Witness ==
    /\ out.msg = "exported_last"
    /\ DateTie(filters)
    /\ Len(out.rows) = 1
    /\ \E r \in filters : r.id < out.rows[1].id

\* C3: what check prints for a location agrees with the entry last_changes
\* prints and the row export_last writes for that location.
C3_LatestQueriesAgree ==
    out.msg = "last_changed" =>
        \A g \in Orderings(GroupMax(filters)) :
            \A i \in 1..Len(g) :
                g[i].location = out.location =>
                    /\ LastChangeLines(filters, g)[i].change_date =
                          out.change_date
                    /\ LastChangeLines(filters, g)[i].product_number =
                          out.product_number
                    /\ LastChangeRows(filters, g)[i].change_date =
                          out.change_date
                    /\ LastChangeRows(filters, g)[i].product_number =
                          out.product_number

\* C4: no two records share an id, and the id an add assigns is greater
\* than every id assigned before, deleted records' ids included.
C4_IdsNeverReused ==
    /\ [](/\ \A r, q \in filters : r.id = q.id => r = q
          /\ Ids(filters) \subseteq assigned)
    /\ [][out'.msg = "recorded" =>
            \E r \in filters' \ filters :
                /\ filters' = filters \cup {r}
                /\ \A i \in assigned : i < r.id
                /\ \A q \in filters : q.id < r.id]_vars

\* An add has run after the record that had the highest id was deleted.
C4_Witness ==
    /\ out.msg = "recorded"
    /\ sqlite_sequence \in Ids(filters)
    /\ \E i \in assigned : i \notin Ids(filters) /\ i = sqlite_sequence - 1

\* C5: every record of the table has a non-empty location, size,
\* product_number and change_date.
C5_FieldsNonEmpty ==
    \A r \in filters :
        /\ r.location # Empty
        /\ r.size # Empty
        /\ r.product_number # Empty
        /\ r.change_date # Empty

\* An argument that counts as supplied: neither left out nor empty.
Supplied(x) == x # None /\ x # Empty

\* C6: in every table the program reaches and for every argument list, edit
\* leaves the table unchanged and reports no record when no record has the
\* id; otherwise it keeps the set of ids, leaves every other record as it
\* was, and gives the record with that id the supplied non-empty values in
\* the fields they were supplied for and its prior values in the others.
C6_EditFrame ==
    \A record_id \in IdArgs, location \in LocationArgs, size \in SizeArgs,
       product_number \in ProductArgs, change_date \in DateArgs :
        LET after == EditTable(filters, record_id, location, size,
                               product_number, change_date)
            printed == EditOutput(filters, record_id, location, size,
                                  product_number, change_date)
        IN  IF record_id \notin Ids(filters)
            THEN after = filters /\ printed.msg = "no_record_with_id"
            ELSE /\ printed.msg # "no_record_with_id"
                 /\ Cardinality(after) = Cardinality(filters)
                 /\ Ids(after) = Ids(filters)
                 /\ \A r \in filters :
                       IF r.id # record_id
                       THEN r \in after
                       ELSE [id |-> r.id,
                             location |-> IF Supplied(location)
                                          THEN location ELSE r.location,
                             size |-> IF Supplied(size)
                                      THEN size ELSE r.size,
                             product_number |->
                                 IF Supplied(product_number)
                                 THEN product_number ELSE r.product_number,
                             change_date |->
                                 IF Supplied(change_date)
                                 THEN change_date ELSE r.change_date]
                            \in after

\* An edit has changed one record of a table that holds another one.
C6_Witness ==
    /\ out.msg = "updated"
    /\ Cardinality(filters) >= 2

\* C7: in every table the program reaches, edit of an existing id with
\* every field left out or empty prints that no fields were provided and
\* leaves the table as it was.
C7_EditNoFields ==
    \A record_id \in Ids(filters) :
        \A location, size, product_number, change_date \in {None, Empty} :
            /\ EditOutput(filters, record_id, location, size, product_number,
                          change_date) = [msg |-> "no_fields_to_update"]
            /\ EditTable(filters, record_id, location, size, product_number,
                         change_date) = filters

\* An edit with no fields has run on an existing record.
C7_Witness ==
    /\ out.msg = "no_fields_to_update"
    /\ filters # {}

\* C8: delete of an existing id removes that record and leaves the others;
\* delete of an id no record has reports it and leaves the table, and so
\* what list gives, as it was; an id that was deleted is reported as not
\* found by every delete and edit from then on, whatever ran in between.
C8_DeleteFrame ==
    /\ [](\A record_id \in IdArgs :
            LET after == DeleteTable(filters, record_id)
                printed == DeleteOutput(filters, record_id)
            IN  IF record_id \in Ids(filters)
                THEN /\ printed.msg = "deleted"
                     /\ Ids(after) = Ids(filters) \ {record_id}
                     /\ after \subseteq filters
                     /\ \A r \in filters : r.id # record_id => r \in after
                ELSE /\ printed.msg = "no_record_with_id"
                     /\ after = filters
                     /\ ListQuery(after) = ListQuery(filters))
    /\ [](\A record_id \in assigned \ Ids(filters) :
            /\ DeleteOutput(filters, record_id).msg = "no_record_with_id"
            /\ \A location \in LocationArgs, size \in SizeArgs,
                  product_number \in ProductArgs, change_date \in DateArgs :
                    EditOutput(filters, record_id, location, size,
                               product_number, change_date).msg =
                        "no_record_with_id")
    /\ [][\A record_id \in assigned \ Ids(filters) :
            record_id \notin Ids(filters')]_vars

\* A delete has removed one record and left another.
C8_Witness ==
    /\ out.msg = "deleted"
    /\ out.id \in assigned \ Ids(filters)
    /\ filters # {}

\* C9: list and export_all give every record of the table exactly once,
\* by location ascending and, within a location, by change_date descending;
\* on an empty table they report that there are no records.
C9_ListOrder ==
    /\ out.msg \in {"table", "exported_all"} =>
          /\ Len(out.rows) = Cardinality(filters)
          /\ {out.rows[i] : i \in 1..Len(out.rows)} = filters
          /\ \A i, j \in 1..Len(out.rows) : i < j =>
                \/ TextLess(out.rows[i].location, out.rows[j].location)
                \/ /\ out.rows[i].location = out.rows[j].location
                   /\ ~TextLess(out.rows[i].change_date,
                                out.rows[j].change_date)
    /\ out.msg \in {"no_records_found", "no_records_to_export"} =>
          filters = {}

\* list has printed two records of one location, the later-dated one
\* first although it has the lower id.
C9_Witness ==
    /\ out.msg = "table"
    /\ Len(out.rows) = 2
    /\ out.rows[1].location = out.rows[2].location
    /\ TextLess(out.rows[2].change_date, out.rows[1].change_date)
    /\ out.rows[1].id < out.rows[2].id

\* C10: a check that follows an add for the same location prints the
\* change_date and product_number of the record the add created, whatever
\* records the location already had.
C10_AddThenCheck ==
    [][(/\ out.msg = "recorded"
        /\ out'.msg \in {"last_changed", "no_record_for_location"}
        /\ out'.location = out.location)
       => /\ out'.msg = "last_changed"
          /\ \E r \in filters :
                /\ r.id = sqlite_sequence
                /\ r.change_date = out.change_date
                /\ out'.change_date = r.change_date
                /\ out'.product_number = r.product_number]_vars

\* C10, amended: a check that follows an add for the same location prints
\* the change_date and product_number of a record of that location that has
\* the largest change_date, which is the new record's date or a later one;
\* it prints the new record's when every record the location already had
\* is dated before the new one.
C10_AddThenCheckLargestDate ==
    [][(/\ out.msg = "recorded"
        /\ out'.msg \in {"last_changed", "no_record_for_location"}
        /\ out'.location = out.location)
       => /\ out'.msg = "last_changed"
          /\ ~TextLess(out'.change_date, out.change_date)
          /\ \E r \in filters :
                /\ r.location = out.location
                /\ \A q \in filters : q.location = out.location =>
                      ~TextLess(r.change_date, q.change_date)
                /\ out'.change_date = r.change_date
                /\ out'.product_number = r.product_number
          /\ (\A q \in filters :
                 q.location = out.location /\ q.id # sqlite_sequence
                     => TextLess(q.change_date, out.change_date))
             => \E r \in filters :
                   /\ r.id = sqlite_sequence
                   /\ r.change_date = out.change_date
                   /\ out'.change_date = r.change_date
                   /\ out'.product_number = r.product_number]_vars

\* An add has created a record for a location that had an earlier-dated
\* record with another product_number, and check can print only the new one.
C10_Witness ==
    /\ out.msg = "recorded"
    /\ \E r, q \in filters :
          /\ r.id = sqlite_sequence
          /\ r.location = out.location
          /\ q.location = out.location
          /\ TextLess(q.change_date, r.change_date)
          /\ q.product_number # r.product_number
          /\ CheckOutputs(filters, out.location) =
                {[msg |-> "last_changed", location |-> r.location,
                  change_date |-> r.change_date,
                  product_number |-> r.product_number]}
=============================================================================
